---- MODULE Spec2Model ----
(***************************************************************************)
(* Model of the agent orchestration core of lab-toolchains:                *)
(* TravelAgent (src/app/agents/travel_agent.py), the ContextLogger it logs *)
(* through (src/utils/logger.py) and the TelemetryManager it reports to    *)
(* (src/app/utils/telemetry.py).                                           *)
(*                                                                         *)
(* A Python string is a sequence of tokens; every token stands for a fixed *)
(* run of characters (Chars).  len, lower, strip and the "in" substring    *)
(* test are computed on the characters.                                    *)
(***************************************************************************)
EXTENDS Integers, Sequences, FiniteSets, TLC

VARIABLES
    fast_mode,       \* self.fast_mode
    model_provider,  \* self.model_provider
    telemetry,       \* self.telemetry is not None
    tools,           \* names of self.tools
    chat_history,    \* self.chat_history
    logger_context,  \* logger.context of the module-level ContextLogger
    pc,              \* position of the running turn: idle, loop, tools, final
    op,              \* the operation running or last run: none, chat, plan, reset
    messages,        \* the local list "messages" of chat / plan_trip
    iteration,       \* the local counter "iteration"
    pending,         \* tool calls of the current response not yet iterated over
    intent,          \* the local "intent" of chat
    outcome,         \* how the last turn ended: returned content or raised exception
    sent,            \* the message list handed to the latest loop or final model call
    script,          \* the tool request the model stub made in the previous round
    obs,             \* what happened in the turn so far (counts of calls, failures)
    turns,           \* number of turns started on the session
    any_failed,      \* some turn of the session ended with an exception
    detect,          \* inputs and result of a stand-alone _detect_intent call
    environ,         \* os.environ: the credential variables ("" when not set)
    agent_iterations,\* the process-wide gauge agent_iterations (utils/logger.py)
    other,           \* the fields and turn position of the process's other session
    self             \* which of the two sessions the variables above belong to

vars == <<fast_mode, model_provider, telemetry, tools, chat_history, logger_context,
          pc, op, messages, iteration, pending, intent, outcome, sent, script, obs,
          turns, any_failed, detect, environ, agent_iterations, other, self>>

------------------------------------------------------------------------------
(* Bounds of the model *)

\* turns started on one session under Spec
MaxTurns == 2
\* turns started on one session under SpecWindow
MaxTurnsW == 11
\* rounds of a turn in which the model stub picks its tool request freely;
\* in later rounds it repeats the request of the previous round
FreeRounds == 1
\* turns started on the two sessions together under SpecSessions
MaxTurnsS == 2

\* turns of the session whose turns are followed to their end
MaxTurnsL == 1

\* turns of each of two sessions that differ in provider only
MaxTurnsT == 1

(* Program constants *)

\* travel_agent.py:441 pruning window
W == 10
\* travel_agent.py:458 / 311
MaxIterationsFast == 5
MaxIterationsFull == 8
\* travel_agent.py:165 and 170: length thresholds of the keyword fallback
SmallTalkMaxLen == 50
ConfirmationMaxLen == 30
\* travel_agent.py:452 user_input[:100]
ContextMaxLen == 100
\* travel_agent_claude.py:59 and travel_agent_gemini.py:73:
\* get_recommended_settings()["max_iterations"]
RecommendedMaxIterations == 5

------------------------------------------------------------------------------
(* Strings *)

Pad25 == <<"x","x","x","x","x","x","x","x","x","x","x","x","x",
           "x","x","x","x","x","x","x","x","x","x","x","x">>

\* the characters of a token; any other token is one character
Chars(t) ==
    CASE t = "small_talk"   -> <<"s","m","a","l","l","_","t","a","l","k">>
      [] t = "confirmation" -> <<"c","o","n","f","i","r","m","a","t","i","o","n">>
      [] t = "planning"     -> <<"p","l","a","n","n","i","n","g">>
      [] t = "PLANNING"     -> <<"P","L","A","N","N","I","N","G">>
      [] t = "Small_Talk"   -> <<"S","m","a","l","l","_","T","a","l","k">>
      [] t = "Intent:"      -> <<"I","n","t","e","n","t",":">>
      [] t = "chitchat"     -> <<"c","h","i","t","c","h","a","t">>
      [] t = "bonjour"      -> <<"b","o","n","j","o","u","r">>
      [] t = "Hello"        -> <<"H","e","l","l","o">>
      [] t = "hello"        -> <<"h","e","l","l","o">>
      [] t = "merci"        -> <<"m","e","r","c","i">>
      [] t = "salut"        -> <<"s","a","l","u","t">>
      [] t = "hi"           -> <<"h","i">>
      [] t = "Chine"        -> <<"C","h","i","n","e">>
      [] t = "fais le"      -> <<"f","a","i","s"," ","l","e">>
      [] t = "go"           -> <<"g","o">>
      [] t = "GO"           -> <<"G","O">>
      [] t = "lance"        -> <<"l","a","n","c","e">>
      [] t = "ok"           -> <<"o","k">>
      [] t = "vas-y"        -> <<"v","a","s","-","y">>
      [] t = "c'est bon"    -> <<"c","'","e","s","t"," ","b","o","n">>
      [] t = "Tokyo"        -> <<"T","o","k","y","o">>
      [] t = "Rome"         -> <<"R","o","m","e">>
      [] t = "pad25"        -> Pad25
      [] OTHER              -> <<t>>

RECURSIVE Flatten(_)
Flatten(s) == IF s = <<>> THEN <<>> ELSE Chars(Head(s)) \o Flatten(Tail(s))

\* len(s)
StrLen(s) == Len(Flatten(s))

LowerChar(c) ==
    CASE c = "A" -> "a" [] c = "C" -> "c" [] c = "G" -> "g" [] c = "H" -> "h"
      [] c = "I" -> "i" [] c = "L" -> "l" [] c = "N" -> "n" [] c = "O" -> "o"
      [] c = "P" -> "p" [] c = "R" -> "r" [] c = "S" -> "s" [] c = "T" -> "t"
      [] OTHER -> c

\* str.lower() on characters
Lower(cs) == [i \in 1..Len(cs) |-> LowerChar(cs[i])]

Whitespace == {" ", "\n", "\t"}

RECURSIVE LStrip(_)
LStrip(cs) == IF cs # <<>> /\ Head(cs) \in Whitespace THEN LStrip(Tail(cs)) ELSE cs

RECURSIVE RStrip(_)
RStrip(cs) ==
    IF cs # <<>> /\ cs[Len(cs)] \in Whitespace
    THEN RStrip(SubSeq(cs, 1, Len(cs) - 1))
    ELSE cs

\* str.strip() on characters
Strip(cs) == RStrip(LStrip(cs))

\* Python's "needle in hay" on characters
Contains(hay, needle) ==
    \E i \in 1..(Len(hay) - Len(needle) + 1) :
        SubSeq(hay, i, i + Len(needle) - 1) = needle

\* s[:n] on a token string: the tokens that fit entirely in the first n characters
RECURSIVE Truncate(_, _)
Truncate(s, n) ==
    IF s = <<>> \/ Len(Chars(Head(s))) > n
    THEN <<>>
    ELSE <<Head(s)>> \o Truncate(Tail(s), n - Len(Chars(Head(s))))

------------------------------------------------------------------------------
(* ContextLogger *)

\* attributes of a logging.LogRecord: logging refuses an "extra" key that
\* would overwrite one of them (KeyError)
LogRecordAttrs ==
    {"name", "msg", "args", "levelname", "levelno", "pathname", "filename",
     "module", "exc_info", "exc_text", "stack_info", "lineno", "funcName",
     "created", "msecs", "relativeCreated", "thread", "threadName",
     "processName", "process", "message", "asctime"}

\* ContextLogger._log: log_data = {**self.context, **extra} is passed as
\* extra=log_data; the call raises KeyError iff a key collides
LogRaises(ctx, extraKeys) == ((DOMAIN ctx) \cup extraKeys) \cap LogRecordAttrs # {}

NoContext == [k \in {} |-> <<>>]

\* ContextLogger.set_context(key=value): self.context.update(...)
set_context(ctx, key, value) == (key :> value) @@ ctx

\* ContextLogger.clear_context()
clear_context(ctx) == NoContext

------------------------------------------------------------------------------
(* TravelAgent._detect_intent *)

valid_intents == <<"small_talk", "confirmation", "planning">>

GreetingWords == {"bonjour", "hello", "merci", "salut", "hi"}
GoAheadWords  == {"fais le", "go", "lance", "ok", "vas-y", "c'est bon"}

\* the except branch, lines 160-173
KeywordFallback_GoAheadFirst(user_input) ==
    LET user_lower == Strip(Lower(Flatten(user_input)))
    IN  IF (\E w \in GoAheadWords : Contains(user_lower, Chars(w)))
           /\ StrLen(user_input) < ConfirmationMaxLen
        THEN "confirmation"
        ELSE IF (\E w \in GreetingWords : Contains(user_lower, Chars(w)))
                /\ StrLen(user_input) < SmallTalkMaxLen
             THEN "small_talk"
             ELSE "planning"

KeywordFallback_NoDefault(user_input) ==
    LET user_lower == Strip(Lower(Flatten(user_input)))
    IN  IF (\E w \in GreetingWords : Contains(user_lower, Chars(w)))
           /\ StrLen(user_input) < SmallTalkMaxLen
        THEN "small_talk"
        ELSE IF (\E w \in GoAheadWords : Contains(user_lower, Chars(w)))
                /\ StrLen(user_input) < ConfirmationMaxLen
             THEN "confirmation"
             ELSE "None"

KeywordFallback(user_input) ==
    LET user_lower == Strip(Lower(Flatten(user_input)))
    IN  IF (\E w \in GreetingWords : Contains(user_lower, Chars(w)))
           /\ StrLen(user_input) < SmallTalkMaxLen
        THEN "small_talk"
        ELSE IF (\E w \in GoAheadWords : Contains(user_lower, Chars(w)))
                /\ StrLen(user_input) < ConfirmationMaxLen
             THEN "confirmation"
             ELSE "planning"

\* the try branch, lines 142-155, on the content of a response that arrived
ParseIntent_LastLabel(content) ==
    LET reply == Lower(Strip(Flatten(content)))
        hits  == {i \in 1..Len(valid_intents) : Contains(reply, Chars(valid_intents[i]))}
    IN  IF hits # {}
        THEN valid_intents[CHOOSE i \in hits : \A j \in hits : i >= j]
        ELSE "planning"

ParseIntent_DefaultSmallTalk(content) ==
    LET reply == Lower(Strip(Flatten(content)))
        hits  == {i \in 1..Len(valid_intents) : Contains(reply, Chars(valid_intents[i]))}
    IN  IF hits # {}
        THEN valid_intents[CHOOSE i \in hits : \A j \in hits : i <= j]
        ELSE "small_talk"

ParseIntent(content) ==
    LET reply == Lower(Strip(Flatten(content)))
        hits  == {i \in 1..Len(valid_intents) : Contains(reply, Chars(valid_intents[i]))}
    IN  IF \E i \in 1..Len(valid_intents) : reply = Chars(valid_intents[i])
        THEN valid_intents[CHOOSE i \in 1..Len(valid_intents) : reply = Chars(valid_intents[i])]
        ELSE IF hits # {}
             THEN valid_intents[CHOOSE i \in hits : \A j \in hits : i <= j]
             ELSE "planning"

\* A behaviour of self.llm.invoke(intent_prompt): it raises, it answers with a
\* string content, or it answers with a content that is no string (a list of
\* content blocks), on which .strip() raises AttributeError inside the try.
ClsReply(kind, content) == [kind |-> kind, content |-> content]

\* _detect_intent(user_input) under classification behaviour cls, with the
\* logger context ctx; "KeyError" stands for the exception the logger.warning
\* of the except branch would raise
DetectIntent(user_input, cls, ctx) ==
    IF cls.kind = "text"
    THEN ParseIntent(cls.content)
    ELSE IF LogRaises(ctx, {}) THEN "KeyError" ELSE KeywordFallback(user_input)

------------------------------------------------------------------------------
(* Messages (langchain_core.messages) *)

SystemMessage(content, cache) ==
    [type |-> "system", content |-> content, tool_calls |-> <<>>,
     tool_call_id |-> 0, cache_control |-> cache]

HumanMessage(content) ==
    [type |-> "human", content |-> content, tool_calls |-> <<>>,
     tool_call_id |-> 0, cache_control |-> FALSE]

\* a response of the model
AIMessage(content, tool_calls) ==
    [type |-> "ai", content |-> content, tool_calls |-> tool_calls,
     tool_call_id |-> 0, cache_control |-> FALSE]

ToolMessage(content, tool_call_id) ==
    [type |-> "tool", content |-> content, tool_calls |-> <<>>,
     tool_call_id |-> tool_call_id, cache_control |-> FALSE]

------------------------------------------------------------------------------
(* TravelAgent: construction *)

Providers == {"claude", "gemini"}

\* create_all_tools(): the registry handed to the constructor
AllTools ==
    {"get_airport_code", "get_destination_context", "search_flights",
     "search_hotels", "search_vacation_rentals", "find_cultural_activities",
     "find_nearby_attractions", "recommend_restaurants", "create_visit_itinerary",
     "generate_travel_map", "calculate_total_cost", "recommend_best_package"}

essential_tool_names ==
    {"get_airport_code", "search_flights", "search_hotels",
     "calculate_total_cost", "recommend_best_package"}

\* __init__, lines 231-242
EnabledTools_NoFilter(registry, fast) == registry

EnabledTools(registry, fast) ==
    IF fast THEN {t \in registry : t \in essential_tool_names} ELSE registry

\* methods TelemetryManager defines; calling any other raises AttributeError
TelemetryMethods ==
    {"trace_llm_call", "trace_tool_call", "trace_agent_iteration",
     "record_llm_call", "record_tool_call", "record_error"}

TelemetryCallRaises(method) == method \notin TelemetryMethods

------------------------------------------------------------------------------
(* TravelAgent: prompt selection, pruning, iteration cap *)

\* _create_system_message
CreateSystemMessage_ModeFirst(use_light_prompt, fast, provider) ==
    LET prompt == IF fast THEN <<"SYSTEM_PROMPT_FAST">>
                  ELSE IF use_light_prompt THEN <<"SYSTEM_PROMPT_LIGHT">>
                  ELSE <<"SYSTEM_PROMPT">>
    IN  SystemMessage(prompt, provider = "claude")

CreateSystemMessage_PromptPerProvider(use_light_prompt, fast, provider) ==
    LET prompt == IF use_light_prompt /\ provider = "claude" THEN <<"SYSTEM_PROMPT_LIGHT">>
                  ELSE IF fast THEN <<"SYSTEM_PROMPT_FAST">>
                  ELSE <<"SYSTEM_PROMPT">>
    IN  SystemMessage(prompt, provider = "claude")

CreateSystemMessage(use_light_prompt, fast, provider) ==
    LET prompt == IF use_light_prompt THEN <<"SYSTEM_PROMPT_LIGHT">>
                  ELSE IF fast THEN <<"SYSTEM_PROMPT_FAST">>
                  ELSE <<"SYSTEM_PROMPT">>
    IN  SystemMessage(prompt, provider = "claude")

\* chat, lines 441-442: self.chat_history[-10:] when longer than 10
Prune_KeepOldest(h) == IF Len(h) > W THEN SubSeq(h, 1, W) ELSE h

Prune(h) == IF Len(h) > W THEN SubSeq(h, Len(h) - W + 1, Len(h)) ELSE h

\* lines 458 and 311
max_iterations == IF fast_mode THEN MaxIterationsFast ELSE MaxIterationsFull

reset_conversation_KeepLast(h) == IF h = <<>> THEN <<>> ELSE <<h[Len(h)]>>

\* reset_conversation: the new value of self.chat_history
reset_conversation(h) == <<>>

\* get_conversation_length
get_conversation_length == Len(chat_history)

------------------------------------------------------------------------------
(* The model and tool stubs: what the environment may answer *)

Req(name, args) == [name |-> name, args |-> args]

\* two calls of one tool with different arguments
ReqFlights == <<Req("search_flights", 1), Req("search_flights", 2)>>
\* a tool the system prompt names (line 71) but no registry holds
ReqBogus == <<Req("find_restaurants", 1)>>
\* a registered tool that is not essential, an unregistered one, an essential one
ReqMixed == <<Req("recommend_restaurants", 1), Req("find_restaurants", 1),
              Req("search_hotels", 1)>>

ToolRequests == {ReqFlights, ReqBogus, ReqMixed}
ToolRequestsW == {ReqMixed}

\* the model gives every tool call of a response its own id
WithIds(req, round) ==
    [i \in 1..Len(req) |-> [id |-> round * 10 + i, name |-> req[i].name, args |-> req[i].args]]

\* what a registered tool returns: a text
ToolResult(tc) == <<"result", tc.name, ToString(tc.args)>>

ThinkingContent == <<"thinking">>
LoopAnswers  == {<<"answer">>}
FinalAnswers == {<<"summary">>}

\* user utterances and classification behaviours
Utterances ==
    { <<"bonjour">>, <<"Hello", " ", "pad25", "pad25">>, <<"Hello", " ", "pad25", " ", "ok">>,
      <<"go">>, <<"ok", " ", "pad25">>, <<"ok", " ", "pad25", "GO">>,
      <<"merci", " ", "go">>, <<"Tokyo">>, <<"Chine">>, <<"Rome">>, <<"pad25">>,
      <<" ", "lance", "\n">> }

ClsReplies ==
    { ClsReply("raise", <<>>), ClsReply("blocks", <<>>),
      ClsReply("text", <<"small_talk">>), ClsReply("text", <<"confirmation">>),
      ClsReply("text", <<"planning">>), ClsReply("text", <<" ", "PLANNING", "\n">>),
      ClsReply("text", <<"Intent:", " ", "Small_Talk">>),
      ClsReply("text", <<"planning", " ", "confirmation">>),
      ClsReply("text", <<"chitchat">>) }

ChatUtterances == { <<"bonjour">>, <<"Rome">> }
PlanRequests == { <<"Rome">> }
ChatClsReplies == { ClsReply("raise", <<>>), ClsReply("text", <<"confirmation">>) }

Digits(k) == IF k < 10 THEN <<ToString(k)>> ELSE <<ToString(k \div 10), ToString(k % 10)>>
\* the k-th utterance of a long conversation
UtteranceW(k) == <<"Rome", " ">> \o Digits(k)
ClsRepliesW == { ClsReply("text", <<"planning">>) }

------------------------------------------------------------------------------
(* State *)

NoOutcome == [kind |-> "none", content |-> <<>>, exc |-> "", cause |-> ""]
Returned(content) == [kind |-> "returned", content |-> content, exc |-> "", cause |-> ""]
Raised(exc, cause) == [kind |-> "raised", content |-> <<>>, exc |-> exc, cause |-> cause]

NewObs(h, nIntent, request, before) ==
    [tool_calls    |-> 0,      \* invocations of self.llm_with_tools
     final_calls   |-> 0,      \* invocations of self.llm after the loop
     intent_calls  |-> nIntent,\* invocations of self.llm by _detect_intent
     tool_rounds   |-> 0,      \* responses that carried tool calls
     tool_failed   |-> 0,      \* id of the tool call whose tool raised
     model_failed  |-> FALSE,  \* a loop or final model call raised
     final_content |-> <<>>,   \* content of the final response, once it arrived
     last_content  |-> <<>>,   \* content of the latest tool-enabled response
     dispatched    |-> <<>>,   \* ids of the tool calls dispatched, in order
     skipped       |-> <<>>,   \* ids of the tool calls whose name was unknown
     requested     |-> <<>>,   \* the tool calls of the responses, as emitted
     request       |-> request,\* the user_input / user_request of the turn
     before        |-> before, \* self.chat_history when the turn was called
     hist0         |-> h]      \* self.chat_history when the loop was entered

NoDetect == [user_input |-> <<>>, cls |-> ClsReply("raise", <<>>), ctx |-> NoContext,
             result |-> "", done |-> FALSE]

\* the state after TravelAgent(tools=create_all_tools(), model_provider=..., fast_mode=...)
InitSession ==
    /\ fast_mode \in BOOLEAN
    /\ model_provider \in Providers
    /\ telemetry \in BOOLEAN
    /\ tools = EnabledTools(AllTools, fast_mode)
    /\ chat_history = <<>>
    /\ logger_context = NoContext
    /\ pc = "idle"
    /\ op = "none"
    /\ messages = <<>>
    /\ iteration = 0
    /\ pending = <<>>
    /\ intent = ""
    /\ outcome = NoOutcome
    /\ sent = <<>>
    /\ script = <<>>
    /\ obs = NewObs(<<>>, 0, <<>>, <<>>)
    /\ turns = 0
    /\ any_failed = FALSE

\* a session object before __init__ has run
NewSession ==
    [fast_mode |-> FALSE, model_provider |-> "claude", telemetry |-> FALSE, tools |-> {},
     chat_history |-> <<>>, pc |-> "new", op |-> "none", messages |-> <<>>,
     iteration |-> 0, pending |-> <<>>, intent |-> "", outcome |-> NoOutcome,
     sent |-> <<>>, script |-> <<>>, obs |-> NewObs(<<>>, 0, <<>>, <<>>), turns |-> 0,
     any_failed |-> FALSE]

EnvNames == {"ANTHROPIC_API_KEY", "GOOGLE_CLOUD_PROJECT"}

\* an environment holding both providers' variables
FullEnviron == [v \in EnvNames |-> IF v = "ANTHROPIC_API_KEY" THEN "env-key" ELSE "project"]

\* a process with one session, constructed from a full environment
OneSession ==
    /\ detect = NoDetect
    /\ environ = FullEnviron
    /\ agent_iterations = 0
    /\ other = NewSession
    /\ self = 1

Init == InitSession /\ OneSession

sessionVars == <<fast_mode, model_provider, telemetry, tools>>

turnVars == <<pc, op, messages, iteration, pending, intent, outcome, sent, script, obs>>

auxVars == <<environ, other, self>>

------------------------------------------------------------------------------
(* TravelAgent.chat and TravelAgent.plan_trip, step by step *)

\* keys of the logger.error call of the except clauses (lines 396-402, 562-568)
ErrorLogKeys == {"error", "error_type", "total_duration_seconds", "exc_info"}

\* the exception that leaves the except clause entered with exception exc:
\* chat first calls self.telemetry.record_error when telemetry is set, both
\* then call logger.error(..., exc_info=True), and "raise" re-raises exc
\* only if those calls returned
HandlerRaises(exc, isChat, ctx) ==
    IF isChat /\ telemetry /\ TelemetryCallRaises("record_error") THEN "AttributeError"
    ELSE IF LogRaises(ctx, ErrorLogKeys) THEN "KeyError"
    ELSE exc

\* the turn leaves through the except clause
Fail(exc) ==
    LET out == HandlerRaises(exc, op = "chat", logger_context)
    IN  /\ outcome' = Raised(out, exc)
        /\ logger_context' = IF out = exc THEN clear_context(logger_context)
                             ELSE logger_context
        /\ pc' = "idle"
        /\ pending' = <<>>
        /\ any_failed' = TRUE

\* lines 437-442: append the user message, then prune
AppendAndPrune_WithSystem(h, user_input) ==
    Prune(h \o <<SystemMessage(<<"SYSTEM_PROMPT">>, FALSE), HumanMessage(user_input)>>)

AppendAndPrune_Prepend(h, user_input) == Prune(<<HumanMessage(user_input)>> \o h)

AppendAndPrune(h, user_input) == Prune(Append(h, HumanMessage(user_input)))

\* line 495 / 344: messages.append(response)
AddResponse_Dropped(msgs, response) == msgs

AddResponse(msgs, response) == Append(msgs, response)

\* lines 520-523 / 369-372: messages.append(ToolMessage(content=result, tool_call_id=tool_id))
AddToolResult(msgs, tc, result) == Append(msgs, ToolMessage(result, tc.id))

\* lines 483 and 550: chat appends the response it returns to the history;
\* plan_trip (lines 334, 391) does not
RecordAnswer_Always(h, o, response) == Append(h, response)

RecordAnswer_Dropped(h, o, response) == h

RecordAnswer_WholeList(h, o, response) ==
    IF o = "chat" THEN Tail(messages) \o <<response>> ELSE h

RecordAnswer(h, o, response) == IF o = "chat" THEN Append(h, response) ELSE h

\* line 486 / 335: return response.content
ReturnedContent_Empty(response) == <<>>

ReturnedContent(response) == response.content

\* chat, lines 419-459: up to the first evaluation of the while condition
ChatBegin(user_input, cls) ==
    /\ pc = "idle"
    /\ LET di == DetectIntent(user_input, cls, logger_context)
           h  == AppendAndPrune(chat_history, user_input)
       IN  IF di = "KeyError"
           THEN /\ outcome' = Raised("KeyError", "KeyError")
                /\ pc' = "idle"
                /\ any_failed' = TRUE
                /\ UNCHANGED <<chat_history, logger_context, messages, intent>>
                /\ obs' = NewObs(chat_history, 1, user_input, chat_history)
           ELSE /\ intent' = di
                /\ chat_history' = h
                /\ messages' = <<CreateSystemMessage(di = "small_talk", fast_mode,
                                                     model_provider)>> \o h
                /\ logger_context' = set_context(logger_context, "user_input",
                                                 Truncate(user_input, ContextMaxLen))
                /\ outcome' = NoOutcome
                /\ pc' = "loop"
                /\ obs' = NewObs(h, 1, user_input, chat_history)
                /\ UNCHANGED any_failed
    /\ op' = "chat"
    /\ iteration' = 0
    /\ pending' = <<>>
    /\ sent' = <<>>
    /\ script' = <<>>
    /\ turns' = turns + 1
    /\ UNCHANGED <<sessionVars, detect, auxVars>>
    /\ UNCHANGED agent_iterations

\* plan_trip, lines 297-312
PlanBegin(user_request) ==
    /\ pc = "idle"
    /\ op' = "plan"
    /\ messages' = <<CreateSystemMessage(FALSE, fast_mode, model_provider),
                     HumanMessage(user_request)>>
    /\ logger_context' = set_context(logger_context, "user_request",
                                     Truncate(user_request, ContextMaxLen))
    /\ outcome' = NoOutcome
    /\ pc' = "loop"
    /\ obs' = NewObs(chat_history, 0, user_request, chat_history)
    /\ iteration' = 0
    /\ pending' = <<>>
    /\ sent' = <<>>
    /\ script' = <<>>
    /\ turns' = turns + 1
    /\ UNCHANGED <<sessionVars, chat_history, intent, any_failed, detect, auxVars>>
    /\ UNCHANGED agent_iterations

\* lines 462-467 / 315-320: self.llm_with_tools.invoke(messages) raises
LoopModelRaises ==
    /\ pc = "loop"
    /\ iteration' = iteration + 1
    /\ sent' = messages
    /\ obs' = [obs EXCEPT !.tool_calls = @ + 1, !.model_failed = TRUE]
    /\ Fail("ModelError")
    /\ UNCHANGED <<sessionVars, chat_history, op, messages, intent, script, turns, detect, auxVars>>
    /\ agent_iterations' = iteration + 1

\* lines 474-486 / 327-335: the response carries no tool calls
LoopModelAnswers(content) ==
    /\ pc = "loop"
    /\ LET response == AIMessage(content, <<>>)
       IN  /\ chat_history' = RecordAnswer(chat_history, op, response)
           /\ outcome' = Returned(ReturnedContent(response))
           /\ obs' = [obs EXCEPT !.tool_calls = @ + 1, !.last_content = content]
    /\ iteration' = iteration + 1
    /\ sent' = messages
    /\ logger_context' = clear_context(logger_context)
    /\ pc' = "idle"
    /\ UNCHANGED <<sessionVars, op, messages, pending, intent, script, turns,
                   any_failed, detect, auxVars>>
    /\ agent_iterations' = iteration + 1

\* lines 488-498 / 337-347: the response carries tool calls
LoopModelRequests(req) ==
    /\ pc = "loop"
    /\ iteration < FreeRounds \/ req = script
    /\ LET response == AIMessage(ThinkingContent, WithIds(req, iteration + 1))
       IN  /\ messages' = AddResponse(messages, response)
           /\ pending' = response.tool_calls
    /\ iteration' = iteration + 1
    /\ sent' = messages
    /\ script' = req
    /\ obs' = [obs EXCEPT !.tool_calls = @ + 1, !.tool_rounds = @ + 1,
                          !.last_content = ThinkingContent,
                          !.requested = @ \o WithIds(req, iteration + 1)]
    /\ pc' = "tools"
    /\ UNCHANGED <<sessionVars, chat_history, logger_context, op, intent, outcome,
                   turns, any_failed, detect, auxVars>>
    /\ agent_iterations' = iteration + 1

\* line 504 / 353: next((t for t in self.tools if t.name == tool_name), None)
\* is not None
FindTool_Any(ts, tool_name) == TRUE

FindTool_NotInSmallTalk(ts, tool_name) == intent # "small_talk" /\ tool_name \in ts

FindTool(ts, tool_name) == tool_name \in ts

\* where the for loop over response.tool_calls goes after its current element
AfterToolCall_OffByOne ==
    /\ pending' = Tail(pending)
    /\ pc' = IF Tail(pending) # <<>> THEN "tools"
             ELSE IF iteration <= max_iterations THEN "loop" ELSE "final"

AfterToolCall ==
    /\ pending' = Tail(pending)
    /\ pc' = IF Tail(pending) # <<>> THEN "tools"
             ELSE IF iteration < max_iterations THEN "loop" ELSE "final"

\* lines 504-523 / 353-372: the tool is found and returns
ToolReturns ==
    /\ pc = "tools"
    /\ pending # <<>>
    /\ LET tc == Head(pending)
       IN  /\ FindTool(tools, tc.name)
           /\ messages' = AddToolResult(messages, tc, ToolResult(tc))
           /\ obs' = [obs EXCEPT !.dispatched = Append(@, tc.id)]
    /\ AfterToolCall
    /\ UNCHANGED <<sessionVars, chat_history, logger_context, op, iteration, intent,
                   outcome, sent, script, turns, any_failed, detect, auxVars>>
    /\ UNCHANGED agent_iterations

\* line 508 / 357: tool_func.invoke(tool_args) raises
ToolRaises ==
    /\ pc = "tools"
    /\ pending # <<>>
    /\ LET tc == Head(pending)
       IN  /\ FindTool(tools, tc.name)
           /\ obs' = [obs EXCEPT !.dispatched = Append(@, tc.id), !.tool_failed = tc.id]
    /\ Fail("ToolError")
    /\ UNCHANGED <<sessionVars, chat_history, op, messages, iteration, intent, sent,
                   script, turns, detect, auxVars>>
    /\ UNCHANGED agent_iterations

\* lines 524-529 / 373-378: no tool of that name, a warning is logged
ToolUnknown ==
    /\ pc = "tools"
    /\ pending # <<>>
    /\ LET tc == Head(pending)
       IN  /\ ~FindTool(tools, tc.name)
           /\ obs' = [obs EXCEPT !.skipped = Append(@, tc.id)]
    /\ AfterToolCall
    /\ UNCHANGED <<sessionVars, chat_history, logger_context, op, messages, iteration,
                   intent, outcome, sent, script, turns, any_failed, detect, auxVars>>
    /\ UNCHANGED agent_iterations

\* line 533 / 382: self.llm.invoke(messages) raises
FinalModelRaises ==
    /\ pc = "final"
    /\ sent' = messages
    /\ obs' = [obs EXCEPT !.final_calls = @ + 1, !.model_failed = TRUE]
    /\ Fail("ModelError")
    /\ UNCHANGED <<sessionVars, chat_history, op, messages, iteration, intent, script,
                   turns, detect, auxVars>>
    /\ UNCHANGED agent_iterations

\* lines 533-553 / 382-392: the final response arrives
FinalModelAnswers(content) ==
    /\ pc = "final"
    /\ sent' = messages
    /\ obs' = [obs EXCEPT !.final_calls = @ + 1, !.final_content = content]
    /\ LET final_response == AIMessage(content, <<>>)
       IN  IF op = "chat" /\ telemetry /\ TelemetryCallRaises("record_latency")
           THEN \* line 547 raises AttributeError inside the try
                /\ Fail("AttributeError")
                /\ UNCHANGED chat_history
           ELSE /\ chat_history' = RecordAnswer(chat_history, op, final_response)
                /\ logger_context' = clear_context(logger_context)
                /\ outcome' = Returned(ReturnedContent(final_response))
                /\ pc' = "idle"
                /\ pending' = <<>>
                /\ UNCHANGED any_failed
    /\ UNCHANGED <<sessionVars, op, messages, iteration, intent, script, turns, detect, auxVars>>
    /\ UNCHANGED agent_iterations

\* reset_conversation
Reset ==
    /\ pc = "idle"
    /\ chat_history' = reset_conversation(chat_history)
    /\ op' = "reset"
    /\ UNCHANGED <<sessionVars, logger_context, pc, messages, iteration, pending, intent,
                   outcome, sent, script, obs, turns, any_failed, detect, auxVars>>
    /\ UNCHANGED agent_iterations

------------------------------------------------------------------------------
(* ModelFactory and TravelAgent.__init__; two sessions in one process *)

\* the variable that holds a provider's credential (CLAUDE_CONFIG["api_key_env"],
\* GEMINI_CONFIG["project_env"])
CredentialVar(provider) ==
    IF provider = "claude" THEN "ANTHROPIC_API_KEY" ELSE "GOOGLE_CLOUD_PROJECT"

\* ModelFactory._create_claude: "ok" or the name of the exception raised;
\* client_raises: the ChatAnthropic constructor raises
CreateClaude_NoCheck(env, client_raises) == IF client_raises THEN "ClientError" ELSE "ok"

CreateClaude(env, client_raises) ==
    IF env["ANTHROPIC_API_KEY"] = "" THEN "ValueError"
    ELSE IF client_raises THEN "ClientError" ELSE "ok"

\* ModelFactory._create_gemini: the project variable is read and handed to the
\* ChatVertexAI constructor, set or not
CreateGemini(env, client_raises) == IF client_raises THEN "ClientError" ELSE "ok"

\* ModelFactory.create_llm
CreateLLM(provider, env, client_raises) ==
    IF provider = "claude" THEN CreateClaude(env, client_raises)
    ELSE IF provider = "gemini" THEN CreateGemini(env, client_raises)
    ELSE "ValueError"

\* keys of the log calls of __init__
InitLogKeys ==
    {"telemetry_active", "tools_count", "model", "model_provider", "cost_per_search",
     "error", "error_type"}

\* TravelAgent(tools=create_all_tools(), model_provider=provider, api_key=api_key,
\* fast_mode=fast), with get_telemetry() returning a manager iff global_telemetry
Construct(provider, api_key, fast, global_telemetry, client_raises) ==
    /\ pc = "new"
    /\ LET env == IF provider = "claude" /\ api_key # ""
                  THEN [environ EXCEPT !["ANTHROPIC_API_KEY"] = api_key]
                  ELSE environ
           created == CreateLLM(provider, env, client_raises)
           raised == IF LogRaises(logger_context, InitLogKeys) THEN "KeyError"
                     ELSE IF created # "ok" THEN created
                     ELSE ""
       IN  /\ environ' = IF LogRaises(logger_context, InitLogKeys) THEN environ ELSE env
           /\ model_provider' = provider
           /\ fast_mode' = fast
           /\ telemetry' = global_telemetry
           /\ tools' = EnabledTools(AllTools, fast)
           /\ chat_history' = <<>>
           /\ IF raised = ""
              THEN pc' = "idle" /\ outcome' = NoOutcome
              ELSE pc' = "failed" /\ outcome' = Raised(raised, raised)
    /\ UNCHANGED <<logger_context, op, messages, iteration, pending, intent, sent, script,
                   obs, turns, any_failed, detect, agent_iterations, other, self>>

\* the fields and turn position of the session the variables belong to
SessionState ==
    [fast_mode |-> fast_mode, model_provider |-> model_provider, telemetry |-> telemetry,
     tools |-> tools, chat_history |-> chat_history, pc |-> pc, op |-> op,
     messages |-> messages, iteration |-> iteration, pending |-> pending,
     intent |-> intent, outcome |-> outcome, sent |-> sent, script |-> script,
     obs |-> obs, turns |-> turns, any_failed |-> any_failed]

\* the process goes on with its other session (streamlit runs every browser
\* session on a thread of its own); the module-level logger, os.environ and
\* the gauge belong to the process
Switch ==
    /\ pc # "new"
    /\ other' = SessionState
    /\ fast_mode' = other.fast_mode
    /\ model_provider' = other.model_provider
    /\ telemetry' = other.telemetry
    /\ tools' = other.tools
    /\ chat_history' = other.chat_history
    /\ pc' = other.pc
    /\ op' = other.op
    /\ messages' = other.messages
    /\ iteration' = other.iteration
    /\ pending' = other.pending
    /\ intent' = other.intent
    /\ outcome' = other.outcome
    /\ sent' = other.sent
    /\ script' = other.script
    /\ obs' = other.obs
    /\ turns' = other.turns
    /\ any_failed' = other.any_failed
    /\ self' = 3 - self
    /\ UNCHANGED <<logger_context, detect, environ, agent_iterations>>

\* ClaudeTravelAgent.__init__ and GeminiTravelAgent.__init__ pass tools,
\* model_provider and temperature to TravelAgent.__init__: fast_mode keeps its
\* default
WrapperFastMode == FALSE

\* the session is one that ClaudeTravelAgent(tools) or GeminiTravelAgent(tools)
\* constructs
WrapperSession == fast_mode = WrapperFastMode /\ tools = EnabledTools(AllTools, WrapperFastMode)

------------------------------------------------------------------------------
(* Specifications *)

\* one session, few turns, every kind of response
Next ==
    \/ \E u \in ChatUtterances, c \in ChatClsReplies : turns < MaxTurns /\ ChatBegin(u, c)
    \/ \E u \in PlanRequests : turns < MaxTurns /\ PlanBegin(u)
    \/ LoopModelRaises
    \/ \E a \in LoopAnswers : LoopModelAnswers(a)
    \/ \E r \in ToolRequests : LoopModelRequests(r)
    \/ ToolReturns
    \/ ToolRaises
    \/ ToolUnknown
    \/ FinalModelRaises
    \/ \E a \in FinalAnswers : FinalModelAnswers(a)
    \/ Reset

Spec == Init /\ [][Next]_vars

\* one session, a long conversation, one kind of tool request
NextW ==
    \/ \E c \in ClsRepliesW : turns < MaxTurnsW /\ ChatBegin(UtteranceW(turns + 1), c)
    \/ LoopModelRaises
    \/ \E a \in LoopAnswers : LoopModelAnswers(a)
    \/ \E r \in ToolRequestsW : LoopModelRequests(r)
    \/ ToolReturns
    \/ ToolRaises
    \/ ToolUnknown
    \/ FinalModelRaises
    \/ \E a \in FinalAnswers : FinalModelAnswers(a)
    \/ Reset

\* a fast-mode session without telemetry
InitW ==
    /\ InitSession
    /\ fast_mode = TRUE /\ model_provider = "claude" /\ telemetry = FALSE
    /\ OneSession

SpecWindow == InitW /\ [][NextW]_vars

\* two sessions of one process, constructed and used in any interleaving
ApiKeys == {"", "arg-key"}
\* no credential variable is set when the process starts; a construction with
\* an api_key argument sets ANTHROPIC_API_KEY
Environs == {[v \in EnvNames |-> ""]}
ChatUtterancesS == { <<"bonjour">> }
ChatClsRepliesS == { ClsReply("raise", <<>>) }
\* an unregistered tool, then an essential one
ReqPair == <<Req("find_restaurants", 1), Req("search_hotels", 1)>>
ToolRequestsS == {ReqPair}

TurnsStarted == turns + other.turns

InitSessions ==
    /\ fast_mode = NewSession.fast_mode
    /\ model_provider = NewSession.model_provider
    /\ telemetry = NewSession.telemetry
    /\ tools = NewSession.tools
    /\ chat_history = NewSession.chat_history
    /\ pc = NewSession.pc
    /\ op = NewSession.op
    /\ messages = NewSession.messages
    /\ iteration = NewSession.iteration
    /\ pending = NewSession.pending
    /\ intent = NewSession.intent
    /\ outcome = NewSession.outcome
    /\ sent = NewSession.sent
    /\ script = NewSession.script
    /\ obs = NewSession.obs
    /\ turns = NewSession.turns
    /\ any_failed = NewSession.any_failed
    /\ logger_context = NoContext
    /\ detect = NoDetect
    /\ environ \in Environs
    /\ agent_iterations = 0
    /\ other = NewSession
    /\ self = 1

NextSessions ==
    \/ \E p \in Providers, k \in ApiKeys, cr \in BOOLEAN :
          Construct(p, k, TRUE, FALSE, cr)
    \/ Switch
    \/ \E u \in ChatUtterancesS, c \in ChatClsRepliesS :
          TurnsStarted < MaxTurnsS /\ ChatBegin(u, c)
    \/ \E u \in PlanRequests : TurnsStarted < MaxTurnsS /\ PlanBegin(u)
    \/ LoopModelRaises
    \/ \E a \in LoopAnswers : LoopModelAnswers(a)
    \/ \E r \in ToolRequestsS : LoopModelRequests(r)
    \/ ToolReturns
    \/ ToolRaises
    \/ ToolUnknown
    \/ FinalModelRaises
    \/ \E a \in FinalAnswers : FinalModelAnswers(a)
    \/ Reset

SpecSessions == InitSessions /\ [][NextSessions]_vars

\* one session whose model calls and tool dispatches all return or raise
NextLive ==
    \/ \E u \in ChatUtterances, c \in ChatClsReplies : turns < MaxTurnsL /\ ChatBegin(u, c)
    \/ \E u \in PlanRequests : turns < MaxTurnsL /\ PlanBegin(u)
    \/ LoopModelRaises
    \/ \E a \in LoopAnswers : LoopModelAnswers(a)
    \/ \E r \in ToolRequests : LoopModelRequests(r)
    \/ ToolReturns
    \/ ToolRaises
    \/ ToolUnknown
    \/ FinalModelRaises
    \/ \E a \in FinalAnswers : FinalModelAnswers(a)
    \/ Reset

\* a step of the turn in progress: the pending model call or tool dispatch
\* returns or raises
TurnStep == pc # "idle" /\ NextLive

SpecLive == Init /\ [][NextLive]_vars /\ WF_vars(TurnStep)

\* Two sessions that differ in provider only, fed the same inputs. The first
\* session (Claude) takes a step on an input drawn freely; the process then
\* goes on with the second session (Gemini), which takes the step that
\* consumes the same input, and back.

\* what a session has been fed so far in its current turn: the call (chat,
\* plan_trip or reset_conversation) and its argument, and for every model call
\* and tool dispatch consumed whether it returned or raised and what it
\* returned
InputTrace(s) ==
    <<s.turns, s.op, s.obs.request,
      s.obs.tool_calls, s.obs.final_calls, s.obs.model_failed,
      s.obs.last_content, s.obs.final_content, s.obs.requested,
      Len(s.obs.dispatched) + Len(s.obs.skipped), s.obs.tool_failed>>

SameInputs == InputTrace(SessionState) = InputTrace(other)

\* the classification call of both sessions fails
TwinClsReplies == { ClsReply("raise", <<>>) }

StepT ==
    \/ \E u \in ChatUtterances, c \in TwinClsReplies : turns < MaxTurnsT /\ ChatBegin(u, c)
    \/ \E u \in PlanRequests : turns < MaxTurnsT /\ PlanBegin(u)
    \/ LoopModelRaises
    \/ \E a \in LoopAnswers : LoopModelAnswers(a)
    \/ \E r \in ToolRequests : LoopModelRequests(r)
    \/ ToolReturns
    \/ ToolRaises
    \/ ToolUnknown
    \/ FinalModelRaises
    \/ \E a \in FinalAnswers : FinalModelAnswers(a)
    \/ Reset

\* the first session is fed an input
Lead == self = 1 /\ SameInputs /\ StepT

\* the second session is fed the input the first one was fed
Follow == self = 2 /\ ~SameInputs /\ StepT /\ InputTrace(SessionState') = InputTrace(other)

HandOver == ((self = 1 /\ ~SameInputs) \/ (self = 2 /\ SameInputs)) /\ Switch

NextTwin ==
    \/ Lead
    \/ Follow
    \/ HandOver

\* TravelAgent(tools, "claude", fast_mode=f) and TravelAgent(tools, "gemini",
\* fast_mode=f) with the same telemetry setting
InitTwin ==
    /\ InitSession
    /\ model_provider = "claude"
    /\ detect = NoDetect
    /\ environ = FullEnviron
    /\ agent_iterations = 0
    /\ self = 1
    /\ other = [SessionState EXCEPT !.model_provider = "gemini"]

SpecTwin == InitTwin /\ [][NextTwin]_vars

\* a stand-alone call of _detect_intent on drawn inputs
ContextsI == { NoContext, set_context(NoContext, "user_input", <<"Rome">>) }

InitIntent ==
    /\ InitSession
    /\ fast_mode = FALSE /\ model_provider = "claude" /\ telemetry = FALSE
    /\ \E u \in Utterances, c \in ClsReplies, x \in ContextsI :
          detect = [user_input |-> u, cls |-> c, ctx |-> x, result |-> "", done |-> FALSE]
    /\ environ = FullEnviron
    /\ agent_iterations = 0
    /\ other = NewSession
    /\ self = 1

Classify ==
    /\ ~detect.done
    /\ detect' = [detect EXCEPT !.result = DetectIntent(detect.user_input, detect.cls, detect.ctx),
                                !.done = TRUE]
    /\ UNCHANGED <<sessionVars, chat_history, logger_context, turnVars, turns, any_failed,
                   auxVars, agent_iterations>>

NextIntent == Classify

SpecIntent == InitIntent /\ [][NextIntent]_vars

------------------------------------------------------------------------------
(* Properties *)

TurnOver == pc = "idle" /\ op \in {"chat", "plan"}

\* C1: each time a chat call of a session whose calls all succeeded has
\* returned, the history holds at most W = 10 messages, and exactly 10 after
\* the 11th call.
C1_HistoryWithinWindow ==
    (pc = "idle" /\ op = "chat" /\ outcome.kind = "returned" /\ ~any_failed)
        => /\ get_conversation_length <= W
           /\ turns = W + 1 => get_conversation_length = W

\* C2: a turn makes at most max_iterations tool-enabled model calls, and when
\* every one of them answered with tool calls (no model call and no tool
\* raising), exactly one tool-disabled call follows and the turn returns its
\* content.
C2_IterationBound ==
    /\ obs.tool_calls <= max_iterations
    /\ (TurnOver /\ obs.tool_rounds = max_iterations /\ ~obs.model_failed
          /\ obs.tool_failed = 0)
         => (obs.final_calls = 1 /\ outcome = Returned(obs.final_content))

ToolCallIds(m) == {m.tool_calls[k].id : k \in 1..Len(m.tool_calls)}

PairedIn(list) ==
    \A i \in 1..Len(list) :
        list[i].type = "tool"
            => \E j \in 1..(i - 1) :
                  list[j].type = "ai" /\ list[i].tool_call_id \in ToolCallIds(list[j])

\* C3: in every message list passed to a model call, each tool-result message
\* is preceded by an assistant message holding a tool call with the same id.
C3_ToolResultsPaired == PairedIn(sent)

C3_Witness ==
    /\ Len(chat_history) >= 2
    /\ Cardinality({i \in 1..Len(sent) : sent[i].type = "tool"}) >= 2

\* C4: when a registered tool raises, the turn does not fail: a tool-result
\* message with that call's id and a non-empty error text is in the outgoing
\* message list.
C4_ToolFailureBecomesResult ==
    obs.tool_failed # 0
        => /\ outcome.kind # "raised"
           /\ \E i \in 1..Len(messages) :
                 /\ messages[i].type = "tool"
                 /\ messages[i].tool_call_id = obs.tool_failed
                 /\ messages[i].content # <<>>

NoResultFor(ids, list) ==
    \A i \in 1..Len(list) :
        list[i].type = "tool" => \A k \in 1..Len(ids) : ids[k] # list[i].tool_call_id

\* C5: a turn in which the model requested an unknown tool (and no model call
\* or tool raised) raises no exception and completes, no tool-result message
\* for that call is ever sent, and when only unknown tools were requested on
\* every tool-enabled call the turn ends after max_iterations tool-enabled
\* calls and exactly one tool-disabled call.
C5_UnknownToolSkipped ==
    /\ NoResultFor(obs.skipped, sent)
    /\ (TurnOver /\ obs.skipped # <<>> /\ ~obs.model_failed /\ obs.tool_failed = 0)
         => /\ outcome.kind = "returned"
            /\ (obs.dispatched = <<>> /\ obs.tool_rounds = max_iterations)
                  => (obs.tool_calls = max_iterations /\ obs.final_calls = 1)

\* C6: when the chat loop is exhausted and the final tool-disabled call
\* succeeds, chat raises nothing, appends the final response to the history
\* and returns its content, with or without a telemetry manager.
C6_DegradedFinalReturns ==
    (pc = "idle" /\ op = "chat" /\ obs.final_calls = 1 /\ ~obs.model_failed)
        => /\ outcome = Returned(obs.final_content)
           /\ chat_history = Append(obs.hist0, AIMessage(obs.final_content, <<>>))

\* C7: when a loop or final model call raises during chat, that exception
\* reaches the caller, no assistant message is appended and the history is
\* what it was after the user message was appended and pruned.
C7_ModelFailurePropagates ==
    (pc = "idle" /\ op = "chat" /\ obs.model_failed)
        => /\ outcome = Raised("ModelError", "ModelError")
           /\ chat_history = obs.hist0

\* C8: _detect_intent returns small_talk, confirmation or planning and never
\* raises, whatever the utterance and whatever the classification call does.
C8_IntentIsOneOfThree ==
    detect.done => detect.result \in {"small_talk", "confirmation", "planning"}

C8_Witness ==
    detect.done /\ detect.cls.kind = "raise" /\ detect.result = "planning"

\* C9: reset_conversation empties the history and leaves tool set, mode and
\* provider alone; a second call right after the first changes nothing.
C9_ResetIdempotent ==
    [][ op' = "reset"
          => /\ Len(chat_history') = 0
             /\ UNCHANGED sessionVars
             /\ (op = "reset" => chat_history' = chat_history) ]_vars

C9_Witness ==
    op = "reset" /\ get_conversation_length = 0 /\ Len(obs.hist0) > 0 /\ fast_mode

FirstAnswerReturned ==
    pc = "idle" /\ op = "chat" /\ outcome.kind = "returned" /\ obs.tool_rounds = 0

\* C10 as stated: a chat turn whose first tool-enabled response has no tool
\* calls returns its content after one model invocation in the whole turn.
C10_OneInvocation ==
    FirstAnswerReturned
        => /\ obs.intent_calls + obs.tool_calls + obs.final_calls = 1
           /\ outcome.content = obs.last_content

\* C10 amended: such a turn returns that content after two model invocations,
\* the classification call of _detect_intent and one tool-enabled call.
C10_TwoInvocations ==
    FirstAnswerReturned
        => /\ obs.intent_calls = 1 /\ obs.tool_calls = 1 /\ obs.final_calls = 0
           /\ outcome.content = obs.last_content

C10_Witness == FirstAnswerReturned /\ outcome.content = <<"answer">>

\* the ids, in emission order, of the requested tool calls naming a tool in ts
IdsNaming(reqs, ts) ==
    LET sel == SelectSeq(reqs, LAMBDA tc : tc.name \in ts)
    IN  [i \in 1..Len(sel) |-> sel[i].id]

PlanAnswered ==
    pc = "idle" /\ op = "plan" /\ outcome.kind = "returned" /\ obs.final_calls = 0

\* C11: a plan_trip call whose first k responses (k < max_iterations) carry
\* tool calls and whose response k+1 carries none makes exactly k+1 model
\* calls, dispatches as many tools as requested calls name a registered tool,
\* and returns the content of response k+1.
C11_PlanLoopCounts ==
    PlanAnswered
        => /\ obs.tool_rounds < max_iterations
           /\ obs.tool_calls = obs.tool_rounds + 1
           /\ obs.intent_calls = 0
           /\ Len(obs.dispatched) = Len(IdsNaming(obs.requested, tools))
           /\ outcome.content = obs.last_content

C11_Witness ==
    /\ PlanAnswered
    /\ obs.tool_rounds = 2
    /\ Len(obs.dispatched) = 2
    /\ Len(obs.requested) = 6
    /\ outcome.content = <<"answer">>

NameIn(reqs, id) ==
    LET hits == {i \in 1..Len(reqs) : reqs[i].id = id}
    IN  IF hits = {} THEN "" ELSE reqs[CHOOSE i \in hits : TRUE].name

NameOf(id) == NameIn(obs.requested, id)

\* C12: a fast-mode session built from the 12-tool registry dispatches only
\* the five essential tools; a request for any other name is skipped without
\* dispatch, tool-result message or exception; no chat, plan_trip or
\* reset_conversation step changes the enabled tool set.
C12_FastModeTools ==
    [][ /\ tools' = tools
        /\ fast_mode
             => /\ tools = {"get_airport_code", "search_flights", "search_hotels",
                            "calculate_total_cost", "recommend_best_package"}
                /\ \A i \in 1..Len(obs'.dispatched) : NameIn(obs'.requested, obs'.dispatched[i]) \in tools
                /\ \A i \in 1..Len(messages') :
                       messages'[i].type = "tool" => NameIn(obs'.requested, messages'[i].tool_call_id) \in tools
                /\ (pc = "tools" /\ Head(pending).name \notin tools)
                       => /\ obs'.dispatched = obs.dispatched
                          /\ messages' = messages
                          /\ outcome' = outcome
                          /\ obs'.skipped = Append(obs.skipped, Head(pending).id) ]_vars

C12_Witness ==
    /\ fast_mode
    /\ \E i \in 1..Len(obs.skipped) : NameOf(obs.skipped[i]) = "recommend_restaurants"
    /\ \E i \in 1..Len(obs.dispatched) : NameOf(obs.dispatched[i]) = "search_hotels"
    /\ pc = "idle" /\ outcome.kind = "returned"

\* the message list of a plan_trip call: the system message, the user request,
\* then only assistant messages carrying tool calls and tool-result messages
PlanListOnly(list) ==
    list # <<>>
        => /\ Len(list) >= 2
           /\ list[1].type = "system"
           /\ list[2] = HumanMessage(obs.request)
           /\ \A i \in 3..Len(list) :
                  \/ list[i].type = "tool"
                  \/ list[i].type = "ai" /\ list[i].tool_calls # <<>>
                       /\ \E k \in 1..Len(list[i].tool_calls) :
                              list[i].tool_calls[k] \in
                                  {obs.requested[j] : j \in 1..Len(obs.requested)}

\* C13: plan_trip leaves the conversation history as it found it, whether it
\* returns or raises, and the lists it sends to the model hold the system
\* message, the one user request and this turn's tool-call and tool-result
\* messages only.
C13_PlanLeavesHistory ==
    op = "plan"
        => /\ chat_history = obs.before
           /\ PlanListOnly(sent)
           /\ PlanListOnly(messages)

C13_Witness ==
    /\ op = "plan" /\ pc = "idle"
    /\ Len(chat_history) >= 2
    /\ outcome.kind = "returned"
    /\ Len(sent) > 2

C13_WitnessFailing ==
    /\ op = "plan" /\ pc = "idle"
    /\ Len(chat_history) >= 2
    /\ outcome.kind = "raised"

ChatStarted == op = "chat" /\ obs.intent_calls = 1 /\ outcome.exc # "KeyError"

\* C16: after the append-then-prune step of a chat turn the history is the
\* most recent min(n, 10) entries of the history with the user message
\* appended, in their order; the list of the first model call holds at most 10
\* history entries; from the 11th chat call on no list built for the model
\* holds the first user message of the session.
C16_PruneKeepsNewest ==
    ChatStarted
        => LET pre == Append(obs.before, HumanMessage(obs.request))
               n   == Len(pre)
               k   == IF n < W THEN n ELSE W
           IN  /\ Len(obs.hist0) = k
               /\ \A i \in 1..k : obs.hist0[i] = pre[n - k + i]
               /\ obs.tool_calls = 1 => (Len(sent) - 1 <= W /\ Tail(sent) = obs.hist0)
               /\ turns >= W + 1
                    => /\ \A i \in 1..Len(sent) : sent[i] # HumanMessage(UtteranceW(1))
                       /\ \A i \in 1..Len(messages) : messages[i] # HumanMessage(UtteranceW(1))

C16_Witness ==
    /\ ChatStarted
    /\ turns = W + 1
    /\ Len(obs.before) = W + 1
    /\ obs.tool_calls = 1
    /\ Len(sent) = W + 1
    /\ sent[2].type = "ai"

ChatReturned == pc = "idle" /\ op = "chat" /\ outcome.kind = "returned"

\* C17: a chat turn that returns has appended two messages to the history,
\* the user message and then the assistant message it returned; from an empty
\* history the length is 2; no assistant message carrying tool calls and no
\* tool-result message is in the history.
C17_TurnAppendsTwo ==
    /\ ChatReturned
         => /\ chat_history = Append(obs.hist0, AIMessage(outcome.content, <<>>))
            /\ obs.hist0[Len(obs.hist0)] = HumanMessage(obs.request)
            /\ Len(obs.before) < W
                 => chat_history = obs.before \o <<HumanMessage(obs.request),
                                                   AIMessage(outcome.content, <<>>)>>
            /\ obs.before = <<>> => get_conversation_length = 2
    /\ \A i \in 1..Len(chat_history) :
           chat_history[i].type # "tool" /\ chat_history[i].tool_calls = <<>>

C17_Witness ==
    /\ ChatReturned
    /\ obs.final_calls = 1
    /\ Len(obs.dispatched) >= 2
    /\ Len(obs.before) >= 2

\* the tool_call_ids of the tool-result messages right after position i
ToolSegment(list, i) ==
    LET stops == {j \in (i + 1)..Len(list) : list[j].type # "tool"}
        stop  == IF stops = {} THEN Len(list) + 1
                 ELSE CHOOSE j \in stops : \A l \in stops : j <= l
    IN  [k \in 1..(stop - i - 1) |-> list[i + k].tool_call_id]

IsPrefix(a, b) == Len(a) <= Len(b) /\ \A i \in 1..Len(a) : a[i] = b[i]

CallOf(id) == obs.requested[CHOOSE i \in 1..Len(obs.requested) : obs.requested[i].id = id]

\* C18: in every list handed to a model call, each response is followed by
\* the results of exactly its tool calls that name a registered tool, once
\* each, in emission order, each result being that call's own; between model
\* calls the dispatches and results form a prefix of that order; when the
\* turn is over every requested call naming a registered tool was dispatched
\* and has its result in the list, two calls of one tool with different
\* arguments included.
C18_DispatchOrder ==
    /\ \A i \in 1..Len(sent) :
           (sent[i].type = "ai" /\ sent[i].tool_calls # <<>>)
               => ToolSegment(sent, i) = IdsNaming(sent[i].tool_calls, tools)
    /\ \A i \in 1..Len(messages) :
           (messages[i].type = "ai" /\ messages[i].tool_calls # <<>>)
               => IsPrefix(ToolSegment(messages, i), IdsNaming(messages[i].tool_calls, tools))
    /\ \A i \in 1..Len(messages) :
           messages[i].type = "tool"
               => messages[i].content = ToolResult(CallOf(messages[i].tool_call_id))
    /\ IsPrefix(obs.dispatched, IdsNaming(obs.requested, tools))
    /\ pc \in {"loop", "final"} => obs.dispatched = IdsNaming(obs.requested, tools)
    /\ TurnOver
         => /\ obs.dispatched = IdsNaming(obs.requested, tools)
            /\ \A k \in 1..Len(obs.dispatched) :
                   \E i \in 1..Len(messages) :
                       messages[i].type = "tool"
                           /\ messages[i].tool_call_id = obs.dispatched[k]

\* the reply is a text holding none of the three labels
NoLabelIn(content) ==
    \A i \in 1..Len(valid_intents) :
        ~Contains(Lower(Flatten(content)), Chars(valid_intents[i]))

UnlabelledReply == detect.done /\ detect.cls.kind = "text" /\ NoLabelIn(detect.cls.content)

\* C19 as stated: when the classification call succeeds and its response holds
\* none of the three labels, _detect_intent returns what the keyword heuristic
\* returns for the utterance.
C19_UnlabelledUsesHeuristic ==
    UnlabelledReply => detect.result = KeywordFallback(detect.user_input)

\* C19 amended: in that case _detect_intent returns planning, whatever the
\* utterance.
C19_UnlabelledIsPlanning ==
    UnlabelledReply => detect.result = "planning"

C19_Witness ==
    /\ UnlabelledReply
    /\ detect.user_input = <<"bonjour">>
    /\ detect.result = "planning"

TurnPrompt == messages[1].content

\* C20: the system prompt of a turn is the light prompt exactly when the turn
\* is a chat turn of intent small_talk, in either mode; otherwise it is the
\* fast prompt in fast mode and the full prompt in full mode; plan_trip makes
\* no classification call and never uses the light prompt.
C20_PromptSelection ==
    (op \in {"chat", "plan"} /\ messages # <<>>)
        => /\ messages[1].type = "system"
           /\ TurnPrompt = <<"SYSTEM_PROMPT_LIGHT">> <=> (op = "chat" /\ intent = "small_talk")
           /\ TurnPrompt # <<"SYSTEM_PROMPT_LIGHT">>
                => TurnPrompt = IF fast_mode THEN <<"SYSTEM_PROMPT_FAST">>
                                ELSE <<"SYSTEM_PROMPT">>
           /\ op = "plan" => obs.intent_calls = 0
           /\ op = "chat" => (obs.intent_calls = 1
                                /\ intent \in {"small_talk", "confirmation", "planning"})
           /\ sent # <<>> => sent[1] = messages[1]

C20_Witness ==
    /\ op = "chat" /\ intent = "small_talk" /\ fast_mode
    /\ sent # <<>> /\ sent[1].content = <<"SYSTEM_PROMPT_LIGHT">>

C20_WitnessConfirmation ==
    /\ op = "chat" /\ intent = "confirmation" /\ ~fast_mode
    /\ sent # <<>> /\ sent[1].content = <<"SYSTEM_PROMPT">>

Usable == pc \notin {"new", "failed"}

\* C14 as stated: constructing a session fails whenever the credential
\* variable of the selected provider is absent from the environment, for
\* Claude and for Gemini alike.
C14_MissingCredentialFails ==
    Usable => environ[CredentialVar(model_provider)] # ""

\* C14 amended: with the Claude provider construction fails with ValueError
\* whenever ANTHROPIC_API_KEY is absent and no api_key is passed, and a
\* session whose construction failed never runs a turn; with the Gemini
\* provider construction fails only when the client constructor raises.
C14_ClaudeKeyRequired ==
    /\ (Usable /\ model_provider = "claude") => environ["ANTHROPIC_API_KEY"] # ""
    /\ (pc = "failed" /\ model_provider = "gemini") => outcome.exc = "ClientError"
    /\ pc = "failed" => (turns = 0 /\ messages = <<>> /\ chat_history = <<>>
                           /\ outcome.kind = "raised")

C14_Witness ==
    /\ pc = "failed" /\ model_provider = "claude" /\ outcome.exc = "ValueError"
    /\ environ["ANTHROPIC_API_KEY"] = ""
    /\ other.pc = "idle" /\ other.model_provider = "gemini"

\* C15: while the process holds two sessions, a construction, chat, plan_trip
\* or reset_conversation step of one session changes neither the other
\* session's history, tool set, mode or turn, nor the process-wide state the
\* sessions read and write: the logger context, the environment, the gauge.
C15_SessionsIndependent ==
    [][ (self' = self /\ other.pc \notin {"new", "failed"})
          => /\ other' = other
             /\ logger_context' = logger_context
             /\ environ' = environ
             /\ agent_iterations' = agent_iterations ]_vars

\* C21: the history never holds a system message, and every list handed to a
\* model call of chat or plan_trip has exactly one system message, its first,
\* the one created for the turn.
C21_OneSystemMessage ==
    /\ \A i \in 1..Len(chat_history) : chat_history[i].type # "system"
    /\ (op \in {"chat", "plan"} /\ sent # <<>>)
         => /\ sent[1] = CreateSystemMessage(op = "chat" /\ intent = "small_talk",
                                             fast_mode, model_provider)
            /\ \A i \in 2..Len(sent) : sent[i].type # "system"

C21_Witness ==
    /\ op = "chat" /\ turns = 2 /\ obs.final_calls = 1
    /\ Len(chat_history) >= 3
    /\ sent[1].type = "system"

\* C26: a session that ClaudeTravelAgent or GeminiTravelAgent constructs
\* makes at most 5 tool-enabled model calls in a turn, the max_iterations of
\* get_recommended_settings.
C26_WrapperIterationCap ==
    WrapperSession => obs.tool_calls <= RecommendedMaxIterations

\* C27: the history holds user messages and assistant messages without tool
\* calls only, so a list sent in a chat turn starts with the system message
\* and that history, and every tool-result message in it comes after them and
\* answers a tool call of the same turn.
C27_HistoryHasNoToolTraffic ==
    /\ \A i \in 1..Len(chat_history) :
           /\ chat_history[i].type \in {"human", "ai"}
           /\ chat_history[i].tool_calls = <<>>
           /\ chat_history[i].tool_call_id = 0
    /\ (op = "chat" /\ sent # <<>>)
         => /\ SubSeq(sent, 2, Len(obs.hist0) + 1) = obs.hist0
            /\ \A i \in 1..Len(sent) :
                   sent[i].type = "tool"
                       => /\ i > Len(obs.hist0) + 1
                          /\ \E j \in (Len(obs.hist0) + 2)..(i - 1) :
                                 sent[j].type = "ai"
                                     /\ sent[i].tool_call_id \in ToolCallIds(sent[j])

C27_Witness ==
    /\ op = "chat" /\ turns = 2
    /\ Len(obs.hist0) = 3
    /\ obs.hist0[2].content = <<"summary">>
    /\ \E i \in 1..Len(sent) : sent[i].type = "tool"

SmallTalkTurn == op = "chat" /\ intent = "small_talk" /\ obs.intent_calls = 1

\* C30: in a chat turn classified small_talk only the system prompt differs:
\* the list starts with the light prompt followed by the history, the model
\* is called with tools, every tool call naming an enabled tool is dispatched,
\* and the loop ends after max_iterations tool-enabled calls.
C30_SmallTalkKeepsTools ==
    SmallTalkTurn
        => /\ messages[1].content = <<"SYSTEM_PROMPT_LIGHT">>
           /\ SubSeq(messages, 2, Len(obs.hist0) + 1) = obs.hist0
           /\ IsPrefix(obs.dispatched, IdsNaming(obs.requested, tools))
           /\ pc \in {"loop", "final"} => obs.dispatched = IdsNaming(obs.requested, tools)
           /\ obs.tool_calls <= max_iterations
           /\ pc = "final" => obs.tool_rounds = max_iterations
           /\ pc = "loop" => obs.tool_rounds < max_iterations

C30_Witness ==
    /\ SmallTalkTurn
    /\ pc = "final"
    /\ ~fast_mode
    /\ Len(obs.dispatched) = 2 * max_iterations
    /\ \E i \in 1..Len(obs.dispatched) : NameOf(obs.dispatched[i]) = "recommend_restaurants"

TextReply == detect.done /\ detect.cls.kind = "text"

\* the classification response, trimmed and lower-cased
CleanReply == Lower(Strip(Flatten(detect.cls.content)))

\* C24: when the trimmed, lower-cased classification response equals a label
\* that label is returned; otherwise, when it contains labels, the one
\* returned is the first contained in the order small_talk, confirmation,
\* planning.
C24_ExactThenSubstring ==
    TextReply
        => /\ \A l \in {"small_talk", "confirmation", "planning"} :
                  CleanReply = Chars(l) => detect.result = l
           /\ (\A l \in {"small_talk", "confirmation", "planning"} : CleanReply # Chars(l))
                => /\ Contains(CleanReply, Chars("small_talk")) => detect.result = "small_talk"
                   /\ (~Contains(CleanReply, Chars("small_talk"))
                        /\ Contains(CleanReply, Chars("confirmation")))
                          => detect.result = "confirmation"
                   /\ (~Contains(CleanReply, Chars("small_talk"))
                        /\ ~Contains(CleanReply, Chars("confirmation"))
                        /\ Contains(CleanReply, Chars("planning")))
                          => detect.result = "planning"

C24_Witness ==
    /\ TextReply
    /\ detect.cls.content = <<"planning", " ", "confirmation">>
    /\ detect.result = "confirmation"

C24_WitnessExact ==
    /\ TextReply
    /\ detect.cls.content = <<" ", "PLANNING", "\n">>
    /\ detect.result = "planning"

\* the classification call raised, or .strip() raised on a non-string content
FailedReply == detect.done /\ detect.cls.kind \in {"raise", "blocks"}

\* the characters of the utterance, lower-cased
UtteranceChars == Lower(Flatten(detect.user_input))

HasGreeting == \E w \in {"bonjour", "hello", "merci", "salut", "hi"} :
                   Contains(UtteranceChars, Chars(w))

HasGoAhead == \E w \in {"fais le", "go", "lance", "ok", "vas-y", "c'est bon"} :
                  Contains(UtteranceChars, Chars(w))

\* C25: when the classification call fails, the result is small_talk if the
\* utterance contains a greeting word and is shorter than 50 characters,
\* otherwise confirmation if it contains a go-ahead word and is shorter than
\* 30 characters, otherwise planning.
C25_KeywordHeuristic ==
    FailedReply
        => detect.result =
              IF HasGreeting /\ Len(Flatten(detect.user_input)) < 50 THEN "small_talk"
              ELSE IF HasGoAhead /\ Len(Flatten(detect.user_input)) < 30 THEN "confirmation"
              ELSE "planning"

C25_Witness ==
    /\ FailedReply
    /\ detect.user_input = <<"merci", " ", "go">>
    /\ detect.result = "small_talk"

C25_WitnessLong ==
    /\ FailedReply
    /\ detect.user_input = <<"ok", " ", "pad25", "GO">>
    /\ detect.result = "planning"

\* C28: in every message list that chat sends to the model, the message right
\* after the system message is a user message.
C28_OldestIsUser ==
    (op = "chat" /\ sent # <<>>) => sent[2].type = "human"

\* the list of the first model call of a chat turn is the last list sent
FirstChatCall == op = "chat" /\ obs.tool_calls = 1 /\ obs.final_calls = 0 /\ sent # <<>>

\* C29: while no chat turn has failed, between turns the history alternates
\* user and assistant messages and a non-empty history ends with an assistant
\* message; in every chat turn the user message just appended is still the
\* last history entry after pruning and is the last entry of the list of the
\* first model call.
C29_AlternationAndNewest ==
    /\ (~any_failed /\ pc = "idle")
         => /\ \A i \in 1..(Len(chat_history) - 1) :
                   /\ chat_history[i].type \in {"human", "ai"}
                   /\ chat_history[i + 1].type \in {"human", "ai"}
                   /\ chat_history[i].type # chat_history[i + 1].type
            /\ chat_history # <<>> => chat_history[Len(chat_history)].type = "ai"
    /\ (op = "chat" /\ pc \in {"loop", "tools", "final"})
         => /\ chat_history # <<>>
            /\ chat_history[Len(chat_history)] = HumanMessage(obs.request)
    /\ FirstChatCall => sent[Len(sent)] = HumanMessage(obs.request)

\* the seventh turn of an unbroken conversation: the window was pruned
C29_Witness ==
    /\ ~any_failed
    /\ turns = 7
    /\ FirstChatCall
    /\ Len(sent) = W + 1
    /\ sent[2].type = "ai"
    /\ sent[Len(sent)] = HumanMessage(UtteranceW(7))

C29_WitnessBetween ==
    /\ ~any_failed
    /\ turns = 7
    /\ pc = "idle"
    /\ Len(chat_history) = W + 1
    /\ chat_history[1].type = "ai"

TurnRunning == op \in {"chat", "plan"} /\ pc \in {"loop", "tools", "final"}

TurnEnded == pc = "idle" /\ outcome.kind \in {"returned", "raised"}

\* C23: every chat or plan_trip turn whose model calls and tool dispatches
\* return or raise ends, returning a text or raising, and the loop goes back
\* to waiting for the model only while fewer than max_iterations tool-enabled
\* responses have been received.
C23_TurnTerminates ==
    /\ [](pc = "loop" => (obs.tool_calls < max_iterations /\ obs.tool_calls = obs.tool_rounds))
    /\ [](obs.tool_rounds <= max_iterations)
    /\ (TurnRunning ~> TurnEnded)

\* a full-mode turn that ran all its rounds and the final call
C23_Witness ==
    /\ TurnEnded
    /\ ~fast_mode
    /\ obs.tool_rounds = max_iterations
    /\ obs.final_calls = 1
    /\ outcome.kind = "returned"

\* a message list without its cache-control annotations
NoCache(list) == [i \in 1..Len(list) |-> [list[i] EXCEPT !.cache_control = FALSE]]

\* a session's state without its provider and cache-control annotations
Erased(s) ==
    [s EXCEPT !.model_provider = "", !.messages = NoCache(@), !.sent = NoCache(@)]

\* exactly the system messages of a Claude session are annotated
CacheOnSystemOfClaude(s) ==
    /\ \A i \in 1..Len(s.sent) :
          s.sent[i].cache_control
              <=> (s.sent[i].type = "system" /\ s.model_provider = "claude")
    /\ \A i \in 1..Len(s.chat_history) : ~s.chat_history[i].cache_control

\* C22: two sessions that differ in provider only and are fed the same
\* utterances, model responses and tool outcomes make the same model calls on
\* the same lists, dispatch the same tool calls, hold the same histories and
\* return the same texts; their lists differ only in the cache-control
\* annotation, carried by the system message exactly when the provider is
\* Claude. The Gemini session can always consume the input the Claude session
\* consumed.
C22_ProviderOnlyChangesCacheHint ==
    /\ SameInputs
         => /\ Erased(SessionState) = Erased(other)
            /\ CacheOnSystemOfClaude(SessionState)
            /\ CacheOnSystemOfClaude(other)
    /\ (self = 2 /\ ~SameInputs) => ENABLED Follow

\* both sessions ran a small-talk chat turn with tool calls to its final call
C22_Witness ==
    /\ self = 1
    /\ SameInputs
    /\ model_provider = "claude" /\ other.model_provider = "gemini"
    /\ op = "chat" /\ intent = "small_talk" /\ pc = "idle"
    /\ obs.final_calls = 1 /\ other.obs.final_calls = 1
    /\ Len(other.obs.dispatched) > 0
    /\ sent[1].cache_control /\ ~other.sent[1].cache_control
    /\ other.outcome.kind = "returned"

====
